---- MODULE Spec2Model ----
(***************************************************************************)
(* The item service of node-eks-db-project: the Express route handlers of  *)
(* src/index.js over the store adapter of src/dynamo.js, which sends one   *)
(* DynamoDB command per adapter call (two for updateItem).                 *)
(*                                                                         *)
(* The table is the DynamoDB table 'ItemsTable' with partition key `id`    *)
(* (cdk/lib/infra-stack.js:19-23).  Each ddb.send is one atomic step of    *)
(* the backend; the backend is read-after-write consistent, as spec.md     *)
(* section 5 takes it to be.  Values are opaque JSON strings; an Item is a *)
(* function from attribute names to values.                                *)
(***************************************************************************)
EXTENDS Integers, Sequences, FiniteSets, Bags, TLC

(* ------------------------------ bounds -------------------------------- *)
\* how many ids uuidv4() can hand out
MaxUuid == 2
\* how many instants new Date() can read
MaxClock == 2
\* PUT requests between their write and their re-read
MaxInflight == 1

\* The backend returns at most one page per Scan (1 MB of data in DynamoDB);
\* the page is counted here in Items.
ScanPage == 2

(* ------------------------------ values -------------------------------- *)
KeyAttr == "id"

uuid(i) == "u" \o ToString(i)
UuidPool == {uuid(i) : i \in 1..MaxUuid}

\* ids a client makes up for /items/:id; a client cannot guess a uuid that no
\* response has shown it
ClientIds == {"c1"}

toISOString(n) == "t" \o ToString(n)
\* what new Date().toISOString() can return
Timestamps == {toISOString(n) : n \in 1..MaxClock}

\* JSON request bodies after bodyParser.json(): an object, as the list of its
\* (name, value) pairs in document order
Bodies ==
    { <<>>,
      << <<"x", "v1">> >>,
      << <<"createdAt", "v1">>, <<"x", "v2">> >>,
      << <<"id", "c1">>, <<"x", "v1">> >>,
      << <<"id", "">>, <<"createdAt", "v1">> >> }

Undefined == <<>>

ObjectOf(o) ==
    [k \in {o[i][1] : i \in DOMAIN o} |->
        o[CHOOSE i \in DOMAIN o : o[i][1] = k][2]]

\* Object.assign({}, a, b) on the objects as maps
ObjectAssign(a, b) ==
    [k \in DOMAIN a \cup DOMAIN b |-> IF k \in DOMAIN b THEN b[k] ELSE a[k]]

VARIABLES table, used, issued, backendUp, pending, resp, up

vars == <<table, used, issued, backendUp, pending, resp, up>>

(* --------------------------- the backend ------------------------------ *)
BackendError == "BackendError"
ValidationException == "ValidationException"
\* the two refusals of an UpdateCommand that a patch can provoke
InvalidUpdateExpression == "ValidationException: Invalid UpdateExpression"
CannotUpdateKey == "ValidationException: Cannot update attribute id"

\* GetCommand: res.Item is undefined when no item has the key
DdbGet(t, bk, key) ==
    IF ~bk THEN [err |-> BackendError, Item |-> Undefined]
    ELSE [err |-> "", Item |-> IF key \in DOMAIN t THEN t[key] ELSE Undefined]

AllItems(t) == {t[k] : k \in DOMAIN t}

\* the pages a Scan without ExclusiveStartKey can return
ScanPages(t) ==
    IF Cardinality(DOMAIN t) <= ScanPage THEN {AllItems(t)}
    ELSE {{t[k] : k \in K} : K \in {S \in SUBSET DOMAIN t : Cardinality(S) = ScanPage}}

DdbScan(bk, page) ==
    IF ~bk THEN [err |-> BackendError, Items |-> {}]
    ELSE [err |-> "", Items |-> page]

\* PutCommand: creates or replaces the item under Item.id
DdbPut(t, bk, item) ==
    IF ~bk THEN [err |-> BackendError, table |-> t]
    ELSE IF KeyAttr \notin DOMAIN item \/ item[KeyAttr] = ""
         THEN [err |-> ValidationException, table |-> t]
    ELSE [err |-> "",
          table |-> [k \in DOMAIN t \cup {item[KeyAttr]} |->
                        IF k = item[KeyAttr] THEN item ELSE t[k]]]

\* a backend that lets SET write the key attribute like any other
DdbUpdateSetsKey(t, bk, cmd) ==
    LET n == Len(cmd.UpdateExpression)
        attr(i) == cmd.ExpressionAttributeNames[cmd.UpdateExpression[i][1]]
        val(i) == cmd.ExpressionAttributeValues[cmd.UpdateExpression[i][2]]
        set == {attr(i) : i \in 1..n}
        old == IF cmd.Key \in DOMAIN t THEN t[cmd.Key]
               ELSE [a \in {KeyAttr} |-> cmd.Key]
        new == [a \in DOMAIN old \cup set |->
                   IF a \in set THEN val(CHOOSE i \in 1..n : attr(i) = a)
                   ELSE old[a]]
    IN  IF ~bk THEN [err |-> BackendError, table |-> t]
        ELSE IF n = 0 THEN [err |-> InvalidUpdateExpression, table |-> t]
        ELSE [err |-> "",
              table |-> [k \in DOMAIN t \cup {cmd.Key} |->
                            IF k = cmd.Key THEN new ELSE t[k]]]

\* UpdateCommand with a SET expression: a list of (name placeholder, value
\* placeholder) assignments.  An empty SET is a syntax error, SET on the key
\* attribute is refused, and SET on a key with no item creates the item.
DdbUpdate(t, bk, cmd) ==
    LET n == Len(cmd.UpdateExpression)
        attr(i) == cmd.ExpressionAttributeNames[cmd.UpdateExpression[i][1]]
        val(i) == cmd.ExpressionAttributeValues[cmd.UpdateExpression[i][2]]
        set == {attr(i) : i \in 1..n}
        old == IF cmd.Key \in DOMAIN t THEN t[cmd.Key]
               ELSE [a \in {KeyAttr} |-> cmd.Key]
        new == [a \in DOMAIN old \cup set |->
                   IF a \in set THEN val(CHOOSE i \in 1..n : attr(i) = a)
                   ELSE old[a]]
    IN  IF ~bk THEN [err |-> BackendError, table |-> t]
        ELSE IF n = 0 THEN [err |-> InvalidUpdateExpression, table |-> t]
        ELSE IF KeyAttr \in set THEN [err |-> CannotUpdateKey, table |-> t]
        ELSE IF Cardinality(set) < n
             THEN [err |-> ValidationException, table |-> t]
        ELSE [err |-> "",
              table |-> [k \in DOMAIN t \cup {cmd.Key} |->
                            IF k = cmd.Key THEN new ELSE t[k]]]

\* DeleteCommand: succeeds whether or not the key has an item
DdbDelete(t, bk, key) ==
    IF ~bk THEN [err |-> BackendError, table |-> t]
    ELSE [err |-> "", table |-> [k \in DOMAIN t \ {key} |-> t[k]]]

(* ------------------------- the store adapter -------------------------- *)
getItem(t, bk, id) == DdbGet(t, bk, id)

listItems(bk, page) == DdbScan(bk, page)

putItem(t, bk, item) ==
    IF KeyAttr \notin DOMAIN item \/ item[KeyAttr] = ""
    THEN [err |-> "id is required", table |-> t]
    ELSE DdbPut(t, bk, item)

nameKey(i) == "#k" \o ToString(i)
valKey(i) == ":v" \o ToString(i)

\* updateItem without its i++: every field gets the placeholders of index 1
UpdateCommandNoIncrement(id, patch) ==
    [Key |-> id,
     UpdateExpression |-> [i \in DOMAIN patch |-> <<nameKey(1), valKey(1)>>],
     ExpressionAttributeNames |->
        [p \in {nameKey(1) : i \in DOMAIN patch} |-> patch[Len(patch)][1]],
     ExpressionAttributeValues |->
        [p \in {valKey(1) : i \in DOMAIN patch} |-> patch[Len(patch)][2]]]

\* updateItem with i++ after the placeholders are made: they count from 0
UpdateCommandPostIncrement(id, patch) ==
    [Key |-> id,
     UpdateExpression |-> [i \in DOMAIN patch |-> <<nameKey(i - 1), valKey(i - 1)>>],
     ExpressionAttributeNames |->
        [p \in {nameKey(i - 1) : i \in DOMAIN patch} |->
            patch[CHOOSE i \in DOMAIN patch : nameKey(i - 1) = p][1]],
     ExpressionAttributeValues |->
        [p \in {valKey(i - 1) : i \in DOMAIN patch} |->
            patch[CHOOSE i \in DOMAIN patch : valKey(i - 1) = p][2]]]

\* the UpdateCommand updateItem builds from the patch
UpdateCommand(id, patch) ==
    [Key |-> id,
     UpdateExpression |-> [i \in DOMAIN patch |-> <<nameKey(i), valKey(i)>>],
     ExpressionAttributeNames |->
        [p \in {nameKey(i) : i \in DOMAIN patch} |->
            patch[CHOOSE i \in DOMAIN patch : nameKey(i) = p][1]],
     ExpressionAttributeValues |->
        [p \in {valKey(i) : i \in DOMAIN patch} |->
            patch[CHOOSE i \in DOMAIN patch : valKey(i) = p][2]]]

\* an updateItem that sends no UpdateCommand when the patch has no keys
updateItemWriteSkipsEmpty(t, bk, id, patch) ==
    IF patch = <<>> THEN [err |-> "", table |-> t]
    ELSE DdbUpdate(t, bk, UpdateCommand(id, patch))

\* updateItem up to its await of the UpdateCommand
updateItemWrite(t, bk, id, patch) == DdbUpdate(t, bk, UpdateCommand(id, patch))

\* updateItem's return getItem(id)
updateItemReread(t, bk, id) == getItem(t, bk, id)

\* deleteItem with ConditionExpression attribute_exists(id)
deleteItemConditional(t, bk, id) ==
    IF bk /\ id \notin DOMAIN t
    THEN [err |-> "ConditionalCheckFailedException", table |-> t]
    ELSE DdbDelete(t, bk, id)

\* a deleteItem whose command ignores the Key: every item goes
deleteItemAll(t, bk, id) ==
    IF ~bk THEN [err |-> BackendError, table |-> t]
    ELSE [err |-> "", table |-> <<>>]

deleteItem(t, bk, id) == DdbDelete(t, bk, id)

(* ------------------------- the route handlers ------------------------- *)
Response(op, id, status, item, items, error) ==
    [op |-> op, id |-> id, status |-> status, item |-> item, items |-> items,
     error |-> error]

\* a handler without try/catch: the error leaves it and nothing is sent
CatchRethrow(op, id, err) == [out |-> <<>>, escaped |-> TRUE]

\* the catch block of a handler: one 500 response with err.message
Catch(op, id, err) ==
    [out |-> <<Response(op, id, 500, Undefined, {}, err)>>, escaped |-> FALSE]

Sent(r) == [out |-> <<r>>, escaped |-> FALSE]

\* a health check that pings the store
healthPingsStore(ts) ==
    IF backendUp
    THEN [out |-> <<Response("HEALTH", "", 200,
                             [a \in {"status", "ts"} |->
                                 IF a = "status" THEN "ok" ELSE ts],
                             {}, "")>>,
          escaped |-> FALSE]
    ELSE [out |-> <<Response("HEALTH", "", 500, Undefined, {}, BackendError)>>,
          escaped |-> FALSE]

health(ts) ==
    Sent(Response("HEALTH", "", 200,
                  [a \in {"status", "ts"} |-> IF a = "status" THEN "ok" ELSE ts],
                  {}, ""))

handleList(bk, page) ==
    LET r == listItems(bk, page)
    IN  IF r.err # "" THEN Catch("LIST", "", r.err)
        ELSE Sent(Response("LIST", "", 200, Undefined, r.Items, ""))

\* the GET handler without its `if (!item)` line
handleGetNoCheck(t, bk, id) ==
    LET r == getItem(t, bk, id)
    IN  IF r.err # "" THEN Catch("GET", id, r.err)
        ELSE Sent(Response("GET", id, 200, r.Item, {}, ""))

handleGet(t, bk, id) ==
    LET r == getItem(t, bk, id)
    IN  IF r.err # "" THEN Catch("GET", id, r.err)
        ELSE IF r.Item = Undefined
             THEN Sent(Response("GET", id, 404, Undefined, {}, "not found"))
        ELSE Sent(Response("GET", id, 200, r.Item, {}, ""))

\* Object.assign with the body last: the client's id and createdAt win
postPayloadBodyLast(body, id, ts) ==
    ObjectAssign([a \in {KeyAttr, "createdAt"} |-> IF a = KeyAttr THEN id ELSE ts],
                 ObjectOf(body))

\* the payload POST builds: the body with id and createdAt stamped over it
postPayload(body, id, ts) ==
    ObjectAssign(ObjectOf(body),
                 [a \in {KeyAttr, "createdAt"} |-> IF a = KeyAttr THEN id ELSE ts])

\* a POST handler that stamps createdAt on the response only
handlePostStampsAfter(t, bk, body, id, ts) ==
    LET payload == postPayload(body, id, ts)
        r == putItem(t, bk, ObjectAssign(ObjectOf(body), [a \in {KeyAttr} |-> id]))
    IN  [table |-> r.table,
         h |-> IF r.err # "" THEN Catch("POST", "", r.err)
               ELSE Sent(Response("POST", "", 201, payload, {}, ""))]

handlePost(t, bk, body, id, ts) ==
    LET payload == postPayload(body, id, ts)
        r == putItem(t, bk, payload)
    IN  [table |-> r.table,
         h |-> IF r.err # "" THEN Catch("POST", "", r.err)
               ELSE Sent(Response("POST", "", 201, payload, {}, ""))]

\* the try block of POST from its await on: putItem(payload), then 201 with
\* the payload, or the catch
handlePostPut(t, bk, payload) ==
    LET r == putItem(t, bk, payload)
    IN  [table |-> r.table,
         h |-> IF r.err # "" THEN Catch("POST", "", r.err)
               ELSE Sent(Response("POST", "", 201, payload, {}, ""))]

handlePutWrite(t, bk, id, patch) ==
    LET r == updateItemWrite(t, bk, id, patch)
    IN  [table |-> r.table, err |-> r.err, h |-> Catch("PUT", id, r.err)]

handlePutReread(t, bk, id) ==
    LET r == updateItemReread(t, bk, id)
    IN  IF r.err # "" THEN Catch("PUT", id, r.err)
        ELSE Sent(Response("PUT", id, 200, r.Item, {}, ""))

handleDelete(t, bk, id) ==
    LET r == deleteItem(t, bk, id)
    IN  [table |-> r.table,
         h |-> IF r.err # "" THEN Catch("DELETE", id, r.err)
               ELSE Sent(Response("DELETE", id, 204, Undefined, {}, ""))]

(* ------------------------------ actions ------------------------------- *)
\* ids a request can name in /items/:id
RequestIds == ClientIds \cup issued

Init ==
    /\ table = <<>>
    /\ used = {}
    /\ issued = {}
    /\ backendUp = TRUE
    /\ pending = EmptyBag
    /\ resp = <<>>
    /\ up = TRUE

\* the handler answered 201: the client now knows the new id
Created(h) == Len(h.out) = 1 /\ h.out[1].status = 201

\* an error that escapes a handler is an unhandled rejection, which ends the
\* process
Reply(h) ==
    /\ resp' = h.out
    /\ up' = ~h.escaped

BackendFlip ==
    /\ backendUp' = ~backendUp
    /\ UNCHANGED <<table, used, issued, pending, resp, up>>

Health(ts) ==
    /\ up
    /\ Reply(health(ts))
    /\ UNCHANGED <<table, used, issued, backendUp, pending>>

List ==
    /\ up
    /\ \E page \in ScanPages(table) : Reply(handleList(backendUp, page))
    /\ UNCHANGED <<table, used, issued, backendUp, pending>>

Get(id) ==
    /\ up
    /\ Reply(handleGet(table, backendUp, id))
    /\ UNCHANGED <<table, used, issued, backendUp, pending>>

\* POST runs to its await in one turn: uuidv4(), new Date() and the send of the
\* PutCommand.  No client knows the id before the 201, so the put is applied
\* in the same step.
Post(body, id, ts) ==
    /\ up
    /\ id \notin used
    /\ LET r == handlePost(table, backendUp, body, id, ts)
       IN  /\ table' = r.table
           /\ Reply(r.h)
           /\ issued' = IF Created(r.h) THEN issued \cup {r.h.out[1].item[KeyAttr]}
                        ELSE issued
    /\ used' = used \cup {id}
    /\ UNCHANGED <<backendUp, pending>>

PutWrite(id, patch) ==
    /\ up
    /\ BagCardinality(pending) < MaxInflight
    /\ LET r == handlePutWrite(table, backendUp, id, patch)
       IN  /\ table' = r.table
           /\ IF r.err # ""
              THEN Reply(r.h) /\ UNCHANGED pending
              ELSE /\ pending' = pending (+) SetToBag({[id |-> id, patch |-> patch]})
                   /\ UNCHANGED <<resp, up>>
    /\ UNCHANGED <<used, issued, backendUp>>

PutReread(p) ==
    /\ up
    /\ BagIn(p, pending)
    /\ Reply(handlePutReread(table, backendUp, p.id))
    /\ pending' = pending (-) SetToBag({p})
    /\ UNCHANGED <<table, used, issued, backendUp>>

Delete(id) ==
    /\ up
    /\ LET r == handleDelete(table, backendUp, id)
       IN  table' = r.table /\ Reply(r.h)
    /\ UNCHANGED <<used, issued, backendUp, pending>>

Next ==
    \/ BackendFlip
    \/ \E ts \in Timestamps : Health(ts)
    \/ List
    \/ \E id \in RequestIds : Get(id)
    \/ \E body \in Bodies, id \in UuidPool, ts \in Timestamps : Post(body, id, ts)
    \/ \E id \in RequestIds, patch \in Bodies : PutWrite(id, patch)
    \/ \E p \in BagToSet(pending) : PutReread(p)
    \/ \E id \in RequestIds : Delete(id)

Spec == Init /\ [][Next]_vars

(* ---------------------- putItem on any argument ----------------------- *)
\* putItem is exported by dynamo.js and takes whatever item its caller hands
\* it.  The POST route always stamps a uuid first, so the items without an id
\* are drawn here: with or without `id`, with an empty one, with the id of a
\* stored item.
PutItems ==
    {ObjectOf(o) :
        o \in {<<>>, << <<"x", "v1">> >>, << <<"x", "v2">> >>}
              \cup {<< <<KeyAttr, i>> >> : i \in {""} \cup ClientIds \cup UuidPool}
              \cup {<< <<KeyAttr, i>>, <<"x", v>> >> :
                       i \in {""} \cup ClientIds \cup UuidPool, v \in {"v1", "v2"}}}

\* putItem awaited in the try block of the POST route
PutItemCall(item) ==
    /\ up
    /\ LET r == handlePostPut(table, backendUp, item)
       IN  table' = r.table /\ Reply(r.h)
    /\ UNCHANGED <<used, issued, backendUp, pending>>

NextPut ==
    \/ BackendFlip
    \/ \E item \in PutItems : PutItemCall(item)

SpecPut == Init /\ [][NextPut]_vars

(* ------------------------------- claims ------------------------------- *)
\* The formulas below speak of single steps.  Each names the handler step it
\* is about by the action itself; the conjuncts before the action only skip
\* the steps that cannot be that action.
Answers(op, id) == resp' # <<>> /\ resp'[1].op = op /\ resp'[1].id = id

\* a PUT's UpdateCommand went through: the request now waits for its re-read
Wrote(id, patch) ==
    /\ pending' = pending (+) SetToBag({[id |-> id, patch |-> patch]})
    /\ PutWrite(id, patch)

\* a PUT's UpdateCommand raised
Refused(id, patch) == Answers("PUT", id) /\ pending' = pending /\ PutWrite(id, patch)

Posted(body, id, ts) == id \in used' /\ Answers("POST", "") /\ Post(body, id, ts)

PatchKeys(patch) == {patch[i][1] : i \in DOMAIN patch}

\* what a partial update promises of the stored item: nothing removed, the
\* attributes outside the patch as before, the patched ones as the patch says
PatchApplied(old, new, patch) ==
    /\ DOMAIN old \subseteq DOMAIN new
    /\ \A a \in DOMAIN old \ PatchKeys(patch) : new[a] = old[a]
    /\ \A i \in DOMAIN patch :
          patch[i][1] \in DOMAIN new /\ new[patch[i][1]] = patch[i][2]

\* C1 as stated: every non-empty patch PUT on a stored Item, with the backend
\* working, leaves the Item with the patch applied attribute by attribute.
C1_Original ==
    [][\A id \in RequestIds, patch \in Bodies :
          (backendUp /\ id \in DOMAIN table /\ patch # <<>> /\ PutWrite(id, patch))
          => (id \in DOMAIN table' /\ PatchApplied(table[id], table'[id], patch))]_vars

\* C1, amended: every non-empty patch that does not name the key attribute
\* `id`, PUT on a stored Item with the backend working, leaves the Item with
\* the patch applied attribute by attribute and nothing removed; a patch that
\* names `id` is refused by the backend and leaves the Item as it was.
C1_PartialUpdate ==
    [][\A id \in RequestIds, patch \in Bodies :
          (backendUp /\ id \in DOMAIN table /\ patch # <<>>)
          => IF KeyAttr \in PatchKeys(patch)
             THEN Answers("PUT", id) /\ PutWrite(id, patch)
                  => (table' = table /\ resp'[1].status = 500 /\ pending' = pending)
             ELSE ((pending' # pending \/ Answers("PUT", id)) /\ PutWrite(id, patch))
                  => /\ Wrote(id, patch)
                     /\ id \in DOMAIN table'
                     /\ PatchApplied(table[id], table'[id], patch)]_vars

\* a patched Item is stored: one attribute changed, another kept
C1_Witness ==
    \E p \in BagToSet(pending) :
        /\ p.id \in DOMAIN table
        /\ p.patch = << <<"x", "v1">> >>
        /\ table[p.id]["x"] = "v1"
        /\ "createdAt" \in DOMAIN table[p.id]
        /\ table[p.id]["createdAt"] \in Timestamps

\* C2: no PUT /items/:id changes the id or the createdAt of a stored Item that
\* a POST stamped.
C2_Original ==
    [][\A id \in RequestIds, patch \in Bodies :
          (id \in DOMAIN table /\ "createdAt" \in DOMAIN table[id]
              /\ table[id]["createdAt"] \in Timestamps /\ PutWrite(id, patch))
          => /\ id \in DOMAIN table'
             /\ table'[id][KeyAttr] = table[id][KeyAttr]
             /\ "createdAt" \in DOMAIN table'[id]
             /\ table'[id]["createdAt"] = table[id]["createdAt"]]_vars

\* C3: a PUT on an id with no stored Item fails and creates no record.
C3_Original ==
    [][\A id \in RequestIds, patch \in Bodies :
          (id \notin DOMAIN table /\ PutWrite(id, patch))
          => (id \notin DOMAIN table' /\ Refused(id, patch))]_vars

\* C4: with the backend working, a DELETE of any id answers 204 and leaves no
\* Item under the id; a second DELETE of the id then answers 204 again and
\* changes nothing, and a GET of the id after it answers 404.
C4_DeleteIdempotent ==
    [][\A id \in RequestIds :
          (backendUp /\ Answers("DELETE", id) /\ Delete(id))
          => LET no204 == <<Response("DELETE", id, 204, Undefined, {}, "")>>
                 again == handleDelete(table', TRUE, id)
                 get == handleGet(again.table, TRUE, id)
             IN  /\ resp' = no204
                 /\ id \notin DOMAIN table'
                 /\ again.h.out = no204
                 /\ again.table = table'
                 /\ Len(get.out) = 1
                 /\ get.out[1].status = 404]_vars

\* a DELETE answered 204 for an id that a POST had created and that is gone
C4_Witness ==
    /\ resp # <<>>
    /\ resp[1].op = "DELETE"
    /\ resp[1].status = 204
    /\ resp[1].id \in issued
    /\ resp[1].id \notin DOMAIN table

\* C5: when POST /items answers 201 with Item I, a GET /items/:id of I.id with
\* no request in between answers 200 with an Item equal to I.
C5_RoundTrip ==
    [][\A body \in Bodies, id \in UuidPool, ts \in Timestamps :
          (Created([out |-> resp']) /\ Posted(body, id, ts))
          => LET I == resp'[1].item
             IN  /\ KeyAttr \in DOMAIN I
                 /\ handleGet(table', TRUE, I[KeyAttr]).out
                      = <<Response("GET", I[KeyAttr], 200, I, {}, "")>>]_vars

\* a POST answered 201 with an Item carrying a client attribute
C5_Witness ==
    /\ resp # <<>>
    /\ resp[1].op = "POST"
    /\ resp[1].status = 201
    /\ "x" \in DOMAIN resp[1].item
    /\ resp[1].item[KeyAttr] \in DOMAIN table

\* C6: the Item a POST answers with and stores has the id and the createdAt
\* the server generated, whatever the body holds under those names; the id is
\* non-empty, differs from every id an earlier POST answered with, and no Item
\* was stored under it before.
C6_ServerStamped ==
    [][\A body \in Bodies, id \in UuidPool, ts \in Timestamps :
          (Created([out |-> resp']) /\ Posted(body, id, ts))
          => LET I == resp'[1].item
             IN  /\ {KeyAttr, "createdAt"} \subseteq DOMAIN I
                 /\ I[KeyAttr] = id /\ I[KeyAttr] # ""
                 /\ I["createdAt"] = ts
                 /\ I[KeyAttr] \notin issued
                 /\ I[KeyAttr] \notin DOMAIN table
                 /\ table' = [k \in DOMAIN table \cup {id} |->
                                 IF k = id THEN I ELSE table[k]]]_vars

\* two POSTs answered 201 under two uuids, the second carrying a client
\* attribute, while an Item stands under the id a client made up
C6_Witness ==
    /\ resp # <<>>
    /\ resp[1].op = "POST"
    /\ resp[1].status = 201
    /\ Cardinality(issued) = 2
    /\ "c1" \in DOMAIN table
    /\ "x" \in DOMAIN resp[1].item
    /\ resp[1].item["x"] = "v1"
    /\ resp[1].item[KeyAttr] \in UuidPool

\* C7: with the backend working, a GET of an id with no stored Item answers
\* exactly 404 {"error":"not found"} and leaves the store alone; getItem
\* itself returns undefined without raising.
C7_GetAbsent ==
    [][\A id \in RequestIds :
          (backendUp /\ id \notin DOMAIN table /\ Answers("GET", id) /\ Get(id))
          => /\ resp' = <<Response("GET", id, 404, Undefined, {}, "not found")>>
             /\ table' = table
             /\ up'
             /\ getItem(table, TRUE, id) = [err |-> "", Item |-> Undefined]]_vars

\* a GET answered 404 while other Items are stored
C7_Witness ==
    /\ resp # <<>>
    /\ resp[1].op = "GET"
    /\ resp[1].status = 404
    /\ resp[1].error = "not found"
    /\ resp[1].id \notin DOMAIN table
    /\ table # <<>>

\* C8: with the backend working, GET /items answers 200 with exactly the
\* Items stored, however many there are.
C8_Original ==
    [][(backendUp /\ Answers("LIST", "") /\ List)
          => (resp' = <<Response("LIST", "", 200, Undefined, AllItems(table), "")>>)]_vars

\* C9: in every state GET /health can be answered, and its answer is 200 with
\* status "ok" and a timestamp of the clock, whether the backend is up or
\* down, whatever PUT is in flight and whatever is stored; the store is left
\* alone.
C9_HealthAlways ==
    [][/\ \A ts \in Timestamps : ENABLED Health(ts)
       /\ \A ts \in Timestamps :
             Health(ts)
             => /\ resp' = <<Response("HEALTH", "", 200,
                                      [a \in {"status", "ts"} |->
                                          IF a = "status" THEN "ok" ELSE ts],
                                      {}, "")>>
                /\ up'
                /\ UNCHANGED <<table, pending, backendUp>>]_vars

\* /health answered while the backend is down, a PUT is in flight and an Item
\* is stored
C9_Witness ==
    /\ resp # <<>>
    /\ resp[1].op = "HEALTH"
    /\ resp[1].status = 200
    /\ ~backendUp
    /\ pending # EmptyBag
    /\ table # <<>>

\* exactly one response, a 500 carrying the error's message, and the process
\* still up
Only500(op, id, err) ==
    /\ resp' = <<Response(op, id, 500, Undefined, {}, err)>>
    /\ up'

\* C10: no step ends the process, and when the store adapter call of an item
\* handler raises, the request gets exactly one response, 500 with
\* {error: message}; no success status is sent for it.
C10_ErrorsCaught ==
    [][/\ up'
       /\ \A page \in ScanPages(table) :
             LET r == listItems(backendUp, page)
             IN  (Answers("LIST", "") /\ r.err # "" /\ List) => Only500("LIST", "", r.err)
       /\ \A id \in RequestIds :
             LET r == getItem(table, backendUp, id)
             IN  (Answers("GET", id) /\ r.err # "" /\ Get(id)) => Only500("GET", id, r.err)
       /\ used' # used
          => \A body \in Bodies, id \in used' \ used, ts \in Timestamps :
                LET r == putItem(table, backendUp, postPayload(body, id, ts))
                IN  (Answers("POST", "") /\ r.err # "" /\ Post(body, id, ts))
                    => (Only500("POST", "", r.err) /\ table' = table)
       /\ \A id \in RequestIds, patch \in Bodies :
             LET r == updateItemWrite(table, backendUp, id, patch)
             IN  (Answers("PUT", id) /\ pending' = pending /\ r.err # ""
                    /\ PutWrite(id, patch))
                 => (Only500("PUT", id, r.err) /\ pending' = pending)
       /\ \A p \in BagToSet(pending) :
             LET r == updateItemReread(table, backendUp, p.id)
             IN  (Answers("PUT", p.id) /\ r.err # "" /\ PutReread(p)) => Only500("PUT", p.id, r.err)
       /\ \A id \in RequestIds :
             LET r == deleteItem(table, backendUp, id)
             IN  (Answers("DELETE", id) /\ r.err # "" /\ Delete(id)) => Only500("DELETE", id, r.err)]_vars

\* a PUT whose re-read failed was answered 500, and the process is up
C10_Witness ==
    /\ resp # <<>>
    /\ resp[1].op = "PUT"
    /\ resp[1].status = 500
    /\ resp[1].error = BackendError
    /\ resp[1].id \in DOMAIN table
    /\ up

C11_ThrowsBeforeWrite ==
    [][\A item \in PutItems :
          ((KeyAttr \notin DOMAIN item \/ item[KeyAttr] = "") /\ PutItemCall(item))
          => /\ putItem(table, backendUp, item).err = "id is required"
             /\ table' = table
             /\ Len(resp') = 1
             /\ resp'[1].error = "id is required"]_vars

C13_Original ==
    [][\A p \in BagToSet(pending) :
          (Answers("PUT", p.id) /\ resp'[1].status = 200 /\ pending' # pending
              /\ PutReread(p))
          => LET I == resp'[1].item
             IN  /\ KeyAttr \in DOMAIN I
                 /\ I[KeyAttr] = p.id
                 /\ \A i \in DOMAIN p.patch :
                       /\ p.patch[i][1] \in DOMAIN I
                       /\ I[p.patch[i][1]] = p.patch[i][2]]_vars

\* what C14 says of the command built for a patch of n fields
Built(cmd, patch) ==
    LET n == Len(patch)
        expr == cmd.UpdateExpression
        names == cmd.ExpressionAttributeNames
        values == cmd.ExpressionAttributeValues
    IN  /\ Len(expr) = n
        /\ \A k \in 1..n : expr[k] = <<"#k" \o ToString(k), ":v" \o ToString(k)>>
        /\ Cardinality({expr[k][1] : k \in 1..n}) = n
        /\ Cardinality({expr[k][2] : k \in 1..n}) = n
        /\ DOMAIN names = {expr[k][1] : k \in 1..n}
        /\ DOMAIN values = {expr[k][2] : k \in 1..n}
        /\ \A k \in 1..n :
              /\ names[expr[k][1]] = patch[k][1]
              /\ values[expr[k][2]] = patch[k][2]
              /\ expr[k][1] # patch[k][1]
              /\ expr[k][2] # patch[k][2]

\* C14: the UpdateCommand that a PUT sends for a patch of n fields has exactly
\* n assignments; the k-th, in the order of the patch's keys, is #k<k> = :v<k>;
\* the n name placeholders are distinct and so are the n value placeholders;
\* each name placeholder stands for exactly its field's name and each value
\* placeholder for its field's value; the expression holds placeholders only.
C14_Placeholders ==
    [][(backendUp' = backendUp /\ used' = used)
          => \A id \in RequestIds, patch \in Bodies :
                ((pending' # pending \/ Answers("PUT", id)) /\ PutWrite(id, patch))
                => LET cmd == UpdateCommand(id, patch)
                   IN  /\ cmd.Key = id
                       /\ Built(cmd, patch)
                       /\ table' = DdbUpdate(table, backendUp, cmd).table]_vars

\* a PUT with a patch of two fields was written, and the stored Item holds
\* each field's value under that field's name
C14_Witness ==
    \E p \in BagToSet(pending) :
        /\ Len(p.patch) = 2
        /\ p.id \in DOMAIN table
        /\ \A k \in 1..2 :
              /\ p.patch[k][1] \in DOMAIN table[p.id]
              /\ table[p.id][p.patch[k][1]] = p.patch[k][2]
        /\ p.patch[1][2] # p.patch[2][2]

\* every record but the one under id is the same before and after the step,
\* and none appears or disappears
OthersUnchanged(id) ==
    /\ DOMAIN table' \ {id} = DOMAIN table \ {id}
    /\ \A k \in DOMAIN table \ {id} : table'[k] = table[k]

\* C15: every item operation changes at most the record it addresses.  GET
\* /items and GET /items/:id leave the store as it is; a POST answered 201 adds
\* exactly one record, under an id that held none, and leaves every record
\* there was as it was, and a POST answered 500 adds none; both steps of PUT
\* /items/:id and DELETE /items/:id leave every record under another id as
\* it was.
C15_Frame ==
    [][/\ (Answers("LIST", "") /\ List) => table' = table
       /\ \A id \in RequestIds : (Answers("GET", id) /\ Get(id)) => table' = table
       /\ used' # used
          => \A body \in Bodies, id \in used' \ used, ts \in Timestamps :
                (Answers("POST", "") /\ Post(body, id, ts))
                => /\ \A k \in DOMAIN table :
                         k \in DOMAIN table' /\ table'[k] = table[k]
                   /\ IF resp'[1].status = 201
                      THEN Cardinality(DOMAIN table' \ DOMAIN table) = 1
                      ELSE table' = table
       /\ \A id \in RequestIds, patch \in Bodies :
             ((pending' # pending \/ Answers("PUT", id)) /\ PutWrite(id, patch))
             => OthersUnchanged(id)
       /\ \A p \in BagToSet(pending) :
             (Answers("PUT", p.id) /\ PutReread(p)) => table' = table
       /\ \A id \in RequestIds :
             (Answers("DELETE", id) /\ Delete(id)) => OthersUnchanged(id)]_vars

\* a DELETE removed a POSTed Item and the two other Items are still stored
C15_Witness ==
    /\ resp # <<>>
    /\ resp[1].op = "DELETE"
    /\ resp[1].status = 204
    /\ resp[1].id \in issued
    /\ resp[1].id \notin DOMAIN table
    /\ Cardinality(DOMAIN table) = 2

\* C16: a PUT /items/:id whose body is {} sends an UpdateCommand with no
\* assignment after SET; the backend refuses it; the request is answered 500,
\* once; no record is created or changed; the request never reaches its
\* re-read.
C16_EmptyPatch ==
    [][\A id \in RequestIds :
          ((pending' # pending \/ Answers("PUT", id)) /\ PutWrite(id, <<>>))
          => /\ Len(UpdateCommand(id, <<>>).UpdateExpression) = 0
             /\ Len(resp') = 1
             /\ resp'[1].status = 500
             /\ backendUp => resp'[1].error = InvalidUpdateExpression
             /\ table' = table
             /\ pending' = pending
             /\ up']_vars

\* an empty patch was refused for an id with no Item, while the backend is up
\* and other Items are stored; no record stands under the id
C16_Witness ==
    /\ resp # <<>>
    /\ resp[1].op = "PUT"
    /\ resp[1].status = 500
    /\ resp[1].error = InvalidUpdateExpression
    /\ resp[1].id \notin DOMAIN table
    /\ table # <<>>
    /\ pending = EmptyBag

====
